---- MODULE Spec2Model ----
(***************************************************************************)
(* gwf-graph: src/src/gwf_graph/main.py                                    *)
(*                                                                         *)
(* The module models the `gwf graph` command: the click callback           *)
(* validate_output_format, the command body graph() and the function       *)
(* create_graph() that fills a graphviz Digraph and renders it.            *)
(*                                                                         *)
(* Strings are sequences of one-character strings, so that str.split,      *)
(* "".join and the regular expression of validate_output_format are        *)
(* computed the way Python computes them.                                  *)
(*                                                                         *)
(* Two entry points are modelled:                                          *)
(*   pc = "option" : the command line; click runs the callback, then the   *)
(*                   command body, which calls create_graph;               *)
(*   pc = "call"   : create_graph called as a function with a dependency   *)
(*                   mapping, an overlay and an output of the caller's     *)
(*                   choice.                                               *)
(***************************************************************************)
EXTENDS Integers, Sequences, FiniteSets, TLC

VARIABLES
    pc,          \* "option" | "command" | "rejected" | "call" | "done"
    workflow,    \* the task collection: target |-> the set of targets it depends on
    status,      \* the --status/--no-status flag
    output,      \* the -o/--output value (create_graph's `output`)
    dependents,  \* create_graph's `dependents` argument
    status_map,  \* create_graph's `status_map` argument
    err,         \* the exception that ended the run, or "none"
    format,      \* Digraph(format=...) as stored by the Digraph
    body,        \* the statements of the Digraph, in emission order
    filename,    \* the name handed to graph.render
    files        \* the paths written by graph.render

vars == <<pc, workflow, status, output, dependents, status_map, err, format,
          body, filename, files>>

(***************************************************************************)
(* Bounds                                                                  *)
(***************************************************************************)
\* largest number of dependency declarations in one input
MaxEdges == 2
\* largest number of entries of an overlay handed to create_graph directly
MaxOverlay == 2

(***************************************************************************)
(* Targets, statuses and outputs                                           *)
(***************************************************************************)
Targets == {"A", "B", "C"}

\* the position of a target in the iteration order of dicts and sets
TargetIndex == [t \in Targets |-> CASE t = "A" -> 1 [] t = "B" -> 2 [] OTHER -> 3]

\* gwf.core.Status, plus "UNKNOWN" for a value that is no key of STATUS_COLORS
Status == {"CANCELLED", "FAILED", "COMPLETED", "RUNNING", "SUBMITTED",
           "SHOULDRUN", "UNKNOWN"}

EmptyMap == [t \in {} |-> {}]

NoString == << >>

LowerLetters == {"a", "b", "c", "d", "e", "f", "g", "h", "i", "j", "k", "l",
                 "m", "n", "o", "p", "q", "r", "s", "t", "u", "v", "w", "x",
                 "y", "z"}

\* members of graphviz.FORMATS used by the model ("txt" is none)
FORMATS == { <<"p", "n", "g">>, <<"s", "v", "g">>, <<"j", "p", "2">> }

\* the option's default, "workflow.png"
DefaultOutput == <<"w", "o", "r", "k", "f", "l", "o", "w", ".", "p", "n", "g">>

\* values of the output option: the default, "a.svg", a base with a dot
\* ("my.wf.png"), a path with a dot ("./o/wf.png"), the empty string, a value
\* without a dot ("wf"), an upper-case extension ("wf.PNG"), an extension
\* with a digit ("wf.jp2"), an unsupported extension ("wf.txt").
\* Values with an empty base (".png", "png") are left out: what graphviz
\* does with the file name '' is not modelled.
Outputs == { DefaultOutput,
             <<"a", ".", "s", "v", "g">>,
             <<"m", "y", ".", "w", "f", ".", "p", "n", "g">>,
             <<".", "/", "o", "/", "w", "f", ".", "p", "n", "g">>,
             << >>,
             <<"w", "f">>,
             <<"w", "f", ".", "P", "N", "G">>,
             <<"w", "f", ".", "j", "p", "2">>,
             <<"w", "f", ".", "t", "x", "t">> }

(***************************************************************************)
(* Python string operations                                                *)
(***************************************************************************)
Dots(s) == {i \in 1..Len(s) : s[i] = "."}

Min(S) == CHOOSE i \in S : \A j \in S : i <= j

Max(S) == CHOOSE i \in S : \A j \in S : i >= j

\* str.split(".")
RECURSIVE Split(_)
Split(s) ==
    IF Dots(s) = {} THEN <<s>>
    ELSE LET i == Min(Dots(s))
         IN  <<SubSeq(s, 1, i - 1)>> \o Split(SubSeq(s, i + 1, Len(s)))

\* "".join(parts)
RECURSIVE Join(_)
Join(parts) ==
    IF parts = << >> THEN << >> ELSE Head(parts) \o Join(Tail(parts))

LowerChar(c) ==
    CASE c = "P" -> "p" [] c = "N" -> "n" [] c = "G" -> "g" [] OTHER -> c

\* str.lower()
Lower(s) == [i \in 1..Len(s) |-> LowerChar(s[i])]

\* re.match(r".*\.([a-z]+)$", value): group(1) of the match, or NoString
\* when there is no match (the match object is None).  [a-z]+ holds no dot,
\* so the dot of the pattern can only be the last dot of the value.
ReMatchGroup1(value) ==
    LET ok == {i \in Dots(value) :
                  /\ i < Len(value)
                  /\ \A j \in (i + 1)..Len(value) : value[j] \in LowerLetters}
    IN  IF ok = {} THEN NoString
        ELSE SubSeq(value, Min(ok) + 1, Len(value))

\* validate_output_format: the exception raised, or "none" when it returns
\* the value
validate_output_format(value) ==
    IF value # << >>
    THEN IF ReMatchGroup1(value) = NoString THEN "AttributeError"
         ELSE IF ReMatchGroup1(value) \in FORMATS THEN "none"
         ELSE "BadParameter"
    ELSE "BadParameter"

(***************************************************************************)
(* create_graph                                                            *)
(***************************************************************************)
\* output_name = "".join(output.split(".")[:-1])
OutputName(out) == Join(SubSeq(Split(out), 1, Len(Split(out)) - 1))

\* output_format = output.split(".")[-1]
OutputFormat(out) == Split(out)[Len(Split(out))]

\* Digraph(format=...) lower-cases the format and raises ValueError when the
\* result is no member of FORMATS
DigraphAccepts(fmt) == Lower(fmt) \in FORMATS

STATUS_COLORS ==
    [s \in Status \ {"UNKNOWN"} |->
        CASE s = "CANCELLED" -> "purple"
          [] s = "FAILED"    -> "red"
          [] s = "COMPLETED" -> "green"
          [] s = "RUNNING"   -> "blue"
          [] s = "SUBMITTED" -> "yellow"
          [] OTHER           -> "black"]

\* a lookup that leaves a status without an entry uncoloured
ColorWithoutDefault(s) ==
    IF s \in DOMAIN STATUS_COLORS THEN STATUS_COLORS[s] ELSE ""

\* STATUS_COLORS.get(status, "black")
Color(s) == IF s \in DOMAIN STATUS_COLORS THEN STATUS_COLORS[s] ELSE "black"

\* the elements of a set of targets in iteration order
RECURSIVE Iter(_)
Iter(S) ==
    IF S = {} THEN << >>
    ELSE LET t == CHOOSE x \in S : \A y \in S : TargetIndex[x] <= TargetIndex[y]
         IN  <<t>> \o Iter(S \ {t})

RoundedRectangle == {<<"shape", "rectangle">>, <<"style", "rounded">>}

\* graph.node(str(target), shape="rectangle", style="rounded", color=color)
NodeStmt(target, color) ==
    [stmt |-> "node", name |-> target, head |-> "",
     attrs |-> RoundedRectangle \cup {<<"color", color>>}]

\* graph.attr("node", shape="rectangle", style="rounded")
AttrStmt ==
    [stmt |-> "attr", name |-> "node", head |-> "", attrs |-> RoundedRectangle]

\* graph.edge(str(target), str(dependency))
EdgeStmt(target, dependency) ==
    [stmt |-> "edge", name |-> target, head |-> dependency, attrs |-> {}]

\* a node phase that forgets the attribute statement of the empty overlay
NodeStmtsWithoutAttr(smap) ==
    IF DOMAIN smap # {}
    THEN LET ts == Iter(DOMAIN smap)
         IN  [i \in 1..Len(ts) |-> NodeStmt(ts[i], Color(smap[ts[i]]))]
    ELSE << >>

\* lines 69-74: one node statement per overlay entry, or the one attribute
\* statement when the overlay is empty
NodeStmts(smap) ==
    IF DOMAIN smap # {}
    THEN LET ts == Iter(DOMAIN smap)
         IN  [i \in 1..Len(ts) |-> NodeStmt(ts[i], Color(smap[ts[i]]))]
    ELSE <<AttrStmt>>

\* lines 77-78: the edges of one key of the mapping
EdgesOf(target, dependencies) ==
    LET ds == Iter(dependencies)
    IN  [i \in 1..Len(ds) |-> EdgeStmt(target, ds[i])]

\* lines 76-78
RECURSIVE EdgeStmtsFrom(_, _)
EdgeStmtsFrom(deps, keys) ==
    IF keys = << >> THEN << >>
    ELSE EdgesOf(Head(keys), deps[Head(keys)]) \o EdgeStmtsFrom(deps, Tail(keys))

EdgeStmts(deps) == EdgeStmtsFrom(deps, Iter(DOMAIN deps))

\* graph.render(output_name, view=True): the DOT source is saved under the
\* name, the picture under name + "." + format
RenderedPath(name, fmt) == name \o <<".">> \o fmt

RenderFiles(name, fmt) == {name, RenderedPath(name, fmt)}

\* a create_graph that learns of the unknown format only when rendering,
\* after the statements were emitted
create_graph_late_format_check(deps, smap, out) ==
    [err |-> IF DigraphAccepts(OutputFormat(out)) THEN "none" ELSE "ValueError",
     format |-> Lower(OutputFormat(out)),
     body |-> NodeStmts(smap) \o EdgeStmts(deps),
     filename |-> OutputName(out),
     files |-> IF DigraphAccepts(OutputFormat(out))
               THEN RenderFiles(OutputName(out), Lower(OutputFormat(out)))
               ELSE {}]

\* create_graph as a whole: the Digraph constructor raises before any
\* statement is emitted; otherwise nodes, then edges, then render
create_graph(deps, smap, out) ==
    IF ~DigraphAccepts(OutputFormat(out))
    THEN [err |-> "ValueError", format |-> NoString, body |-> << >>,
          filename |-> NoString, files |-> {}]
    ELSE [err |-> "none",
          format |-> Lower(OutputFormat(out)),
          body |-> NodeStmts(smap) \o EdgeStmts(deps),
          filename |-> OutputName(out),
          files |-> RenderFiles(OutputName(out), Lower(OutputFormat(out)))]

(***************************************************************************)
(* The collaborators of the command body (gwf)                             *)
(***************************************************************************)
\* Graph.from_targets(...).dependents: a target |-> the targets that depend
\* on it; only targets that have a dependent are keys
GraphDependents(wf) ==
    LET keys == {d \in Targets : \E t \in DOMAIN wf : d \in wf[t]}
    IN  [d \in keys |-> {t \in DOMAIN wf : d \in wf[t]}]

\* get_status_map returns a status for every target of the graph
StatusMaps(wf) == [DOMAIN wf -> Status]

(***************************************************************************)
(* Inputs                                                                  *)
(***************************************************************************)
Pairs == Targets \X Targets

EdgeSets == {E \in SUBSET Pairs : Cardinality(E) <= MaxEdges}

Succ(E, S) == {d \in Targets : \E s \in S : <<s, d>> \in E}

RECURSIVE Descendants(_, _, _)
Descendants(E, S, n) ==
    IF n = 0 THEN {} ELSE Succ(E, S) \cup Descendants(E, Succ(E, S), n - 1)

\* no target depends on itself, directly or through others
Acyclic(E) ==
    \A t \in Targets : t \notin Descendants(E, {t}, Cardinality(Targets))

MapOf(keys, E) == [t \in keys |-> {d \in Targets : <<t, d>> \in E}]

\* the workflows gwf hands to the command: dependencies are targets of the
\* workflow, and the dependency relation has no cycle
Workflows ==
    {MapOf(ts, E) : <<ts, E>> \in
        {p \in (SUBSET Targets) \X EdgeSets :
            /\ p[2] \subseteq p[1] \X p[1]
            /\ Acyclic(p[2])}}

\* the mappings a caller can hand to create_graph: any keys, any values
\* (a key may map to the empty set)
Mappings ==
    {MapOf(p[1], p[2]) : p \in
        {q \in (SUBSET Targets) \X EdgeSets : {e[1] : e \in q[2]} \subseteq q[1]}}

\* the tasks of the collection and the tasks they name as dependencies
TasksOf(wf) == DOMAIN wf \cup UNION {wf[t] : t \in DOMAIN wf}

\* the overlays a caller can hand to create_graph: any partial mapping
\* (InitCall keeps those whose keys are tasks of the collection)
Overlays ==
    UNION {[ks -> Status] :
              ks \in {S \in SUBSET Targets : Cardinality(S) <= MaxOverlay}}

(***************************************************************************)
(* State machine                                                           *)
(***************************************************************************)
NothingRendered ==
    /\ err = "none"
    /\ format = NoString
    /\ body = << >>
    /\ filename = NoString
    /\ files = {}

InitCommand ==
    /\ pc = "option"
    /\ workflow \in Workflows
    /\ status \in BOOLEAN
    /\ output \in Outputs
    /\ dependents = EmptyMap
    /\ status_map = EmptyMap
    /\ NothingRendered

\* a direct call: the caller's task collection is the mapping itself, whose
\* keys are documented (lines 59-60) as the dependent targets and whose
\* values as their dependencies
InitCall ==
    /\ pc = "call"
    /\ workflow \in Mappings
    /\ dependents = workflow
    /\ status = FALSE
    /\ output \in Outputs
    /\ status_map \in {o \in Overlays : DOMAIN o \subseteq TasksOf(workflow)}
    /\ NothingRendered

Init == InitCommand \/ InitCall

\* the result of create_graph becomes the state
Rendered(r) ==
    /\ err' = r.err
    /\ format' = r.format
    /\ body' = r.body
    /\ filename' = r.filename
    /\ files' = r.files

\* click runs the callback of the output option before the command body
ValidateOutputFormat ==
    /\ pc = "option"
    /\ err' = validate_output_format(output)
    /\ pc' = IF err' = "none" THEN "command" ELSE "rejected"
    /\ UNCHANGED <<workflow, status, output, dependents, status_map, format,
                   body, filename, files>>

\* the command body graph()
Graph ==
    /\ pc = "command"
    /\ dependents' = GraphDependents(workflow)
    /\ status_map' \in (IF status THEN StatusMaps(workflow) ELSE {EmptyMap})
    /\ Rendered(create_graph(dependents', status_map', output))
    /\ pc' = "done"
    /\ UNCHANGED <<workflow, status, output>>

\* create_graph called as a function
CreateGraph ==
    /\ pc = "call"
    /\ Rendered(create_graph(dependents, status_map, output))
    /\ pc' = "done"
    /\ UNCHANGED <<workflow, status, output, dependents, status_map>>

Next == ValidateOutputFormat \/ Graph \/ CreateGraph

Spec == Init /\ [][Next]_vars

(***************************************************************************)
(* Reading the Digraph: what the emitted statements mean in DOT            *)
(***************************************************************************)
StmtsOf(b, kind) == {i \in 1..Len(b) : b[i].stmt = kind}

\* the edges of the diagram, as <<tail, head>>
Edges(b) == {<<b[i].name, b[i].head>> : i \in StmtsOf(b, "edge")}

EdgeEndpoints(b) == {e[1] : e \in Edges(b)} \cup {e[2] : e \in Edges(b)}

\* the nodes that have a node statement
DeclaredNodes(b) == {b[i].name : i \in StmtsOf(b, "node")}

\* the nodes of the diagram: a node exists once a statement mentions it
Nodes(b) == DeclaredNodes(b) \cup EdgeEndpoints(b)

Mentions(b, n) ==
    {i \in 1..Len(b) :
        \/ b[i].stmt = "node" /\ b[i].name = n
        \/ b[i].stmt = "edge" /\ n \in {b[i].name, b[i].head}}

\* the attributes of a node: the defaults set by the attribute statements
\* that precede its first mention, and those of its own node statements
NodeAttrs(b, n) ==
    UNION {b[i].attrs : i \in {j \in StmtsOf(b, "attr") : j < Min(Mentions(b, n))}}
    \cup UNION {b[i].attrs : i \in {j \in StmtsOf(b, "node") : b[j].name = n}}

\* the text after the last dot of a value; NoString when it has no dot
TrailingExtension(value) ==
    IF Dots(value) = {} THEN NoString
    ELSE SubSeq(value, Max(Dots(value)) + 1, Len(value))

\* the value without its last dot and what follows it
WithoutExtension(value) ==
    IF Dots(value) = {} THEN value
    ELSE SubSeq(value, 1, Max(Dots(value)) - 1)

\* the pairs (dependent, dependency) of the task collection
Declared(wf) == {p \in (DOMAIN wf) \X Targets : p[2] \in wf[p[1]]}

Drawn == pc = "done" /\ err = "none"

(***************************************************************************)
(* Claims                                                                  *)
(***************************************************************************)

\* C1: the edges of the diagram are exactly the pairs (T, D) with D in T's
\* dependency set, each directed from the dependent T to its dependency D.
C1_EdgesDependentToDependency ==
    Drawn => Edges(body) = Declared(workflow)

\* C2: the nodes of the diagram are all tasks and all tasks named as
\* dependencies, with or without an overlay, and every edge ends in nodes.
C2_EveryTaskIsANode ==
    Drawn => /\ Nodes(body) = TasksOf(workflow)
             /\ EdgeEndpoints(body) \subseteq Nodes(body)

\* C3: with a non-empty overlay, an endpoint of an edge that has no overlay
\* entry is drawn like a task whose entry is Unknown: black, rectangle,
\* rounded.
C3_AbsentDrawnAsUnknown ==
    (Drawn /\ DOMAIN status_map # {}) =>
        \A n \in EdgeEndpoints(body) \ DOMAIN status_map :
            NodeAttrs(body, n) = NodeStmt(n, Color("UNKNOWN")).attrs

\* the colour table of the specification
TableColor(s) ==
    CASE s = "CANCELLED" -> "purple"
      [] s = "FAILED"    -> "red"
      [] s = "COMPLETED" -> "green"
      [] s = "RUNNING"   -> "blue"
      [] s = "SUBMITTED" -> "yellow"
      [] s = "SHOULDRUN" -> "black"
      [] OTHER           -> "black"

\* C4: with a non-empty overlay, every task with an overlay entry is a node
\* with shape rectangle, style rounded and the colour the table gives its
\* status; Unknown and unmapped statuses are black.
C4_OverlayEntriesColoured ==
    (Drawn /\ DOMAIN status_map # {}) =>
        \A t \in DOMAIN status_map :
            /\ Cardinality({i \in StmtsOf(body, "node") : body[i].name = t}) = 1
            /\ NodeAttrs(body, t) = {<<"shape", "rectangle">>,
                                     <<"style", "rounded">>,
                                     <<"color", TableColor(status_map[t])>>}

C4_Witness ==
    /\ Drawn
    /\ DOMAIN status_map = {"A", "B", "C"}
    /\ status_map["A"] = "CANCELLED"
    /\ status_map["B"] = "UNKNOWN"
    /\ status_map["C"] = "SUBMITTED"
    /\ Edges(body) # {}

\* C5: with an empty overlay, every node has the uniform default style
\* (rectangle, rounded), no node has a colour, and no node statement is
\* emitted.
C5_EmptyOverlayUniformStyle ==
    (Drawn /\ DOMAIN status_map = {}) =>
        /\ StmtsOf(body, "node") = {}
        /\ \A n \in Nodes(body) :
              NodeAttrs(body, n) = {<<"shape", "rectangle">>,
                                    <<"style", "rounded">>}

C5_Witness ==
    /\ Drawn
    /\ DOMAIN status_map = {}
    /\ Cardinality(Nodes(body)) = 3

\* C6: when a task lists itself as a dependency, graph construction fails
\* (InvalidGraphError in the specification; here any exception) and
\* rendering is aborted: no self-edge is emitted and no file is written.
C6_SelfDependencyRejected ==
    (pc = "done" /\ \E t \in DOMAIN workflow : t \in workflow[t]) =>
        /\ err # "none"
        /\ \A e \in Edges(body) : e[1] # e[2]
        /\ files = {}

C8_BaseNameKeepsItsDots ==
    (pc = "done" /\ TrailingExtension(output) \in FORMATS) =>
        /\ filename = WithoutExtension(output)
        /\ format = TrailingExtension(output)
        /\ output \in files

\* C10: validate_output_format returns the value exactly when the text
\* after its last dot is a supported format and raises click.BadParameter
\* otherwise, never anything else; create_graph never gets a rejected value.
C10_ValidateReturnsOrBadParameter ==
    /\ pc \in {"command", "rejected"} =>
          /\ err \in {"none", "BadParameter"}
          /\ err = "none" <=> TrailingExtension(output) \in FORMATS
    /\ pc = "rejected" => body = << >> /\ files = {}

====
